---- MODULE Spec2Model ----
(***************************************************************************)
(* A model of psqlextra/backend/schema.py: PostgresSchemaEditor, the       *)
(* schema editor ("session") that builds the DDL of partitioned tables and *)
(* dispatches every schema mutation to the registered side effects.        *)
(*                                                                         *)
(* The program is single threaded: one call on a schema editor runs to its *)
(* end before the next one starts.  A call is one action; the order of     *)
(* what happens inside it is kept in `trace`, the sequence of the events   *)
(* of the call (calls into the base engine, hooks of the side effects,     *)
(* statements that reach the database, statements that are captured).      *)
(*                                                                         *)
(* Text is a sequence of tokens: "a" + "b" is <<"a">> \o <<"b">>.  The     *)
(* tokens are chosen so that every piece of text the code looks for or     *)
(* cuts off (" PRIMARY KEY", the closing parenthesis, a "%s" placeholder)  *)
(* is a token of its own.                                                  *)
(***************************************************************************)
EXTENDS Integers, Sequences, FiniteSets, TLC

\* ------------------------------------------------------------------ bounds

\* longest partitioning key a model declares
MaxKeyLen == 2
\* most statements the base create_model executes beyond the CREATE TABLE
\* of the model itself (one per automatically created related table)
MaxRelated == 1
\* longest list of values handed to add_list_partition
MaxValues == 2

\* ------------------------------------------------------------ small helpers

Range(f) == {f[i] : i \in DOMAIN f}

SeqsUpTo(S, n) == UNION {[1..k -> S] : k \in 0..n}

Injective(q) == \A i, j \in DOMAIN q : q[i] = q[j] => i = j

RECURSIVE Concat(_)
\* the concatenation of a sequence of sequences
Concat(qs) == IF qs = <<>> THEN <<>> ELSE Head(qs) \o Concat(Tail(qs))

\* ------------------------------------------------------------ python values

\* None
None == [tag |-> "None", items |-> <<>>]
\* a single value (a str, an int, a date): its literal is the one item
Scalar(v) == [tag |-> "scalar", items |-> <<v>>]
\* a python list of scalars
List(vs) == [tag |-> "list", items |-> vs]

\* `not v`: None, the empty string and the empty list are false
Falsy(v) == v.tag = "None" \/ v.items = <<>> \/ v = Scalar("")

\* len(values) of a list
PyLen(v) == Len(v.items)

\* the elements a python sequence yields when it is iterated
Elements(v) == [i \in 1..Len(v.items) |-> Scalar(v.items[i])]

\* ------------------------------------------------------------------- text

\* connection.ops.quote_name as the schema editor exposes it: the name
\* between double quotes (no name of the model is quoted already)
quote_name(name) == <<"\"" \o name \o "\"">>

RECURSIVE Format(_, _)
\* template % args: each "%s" of the template, from the left, is replaced
\* by the next argument; the text put in place is not scanned again
Format(template, args) ==
    IF template = <<>> THEN <<>>
    ELSE IF Head(template) = "%s" /\ args # <<>>
         THEN Head(args) \o Format(Tail(template), Tail(args))
         ELSE <<Head(template)>> \o Format(Tail(template), args)

RECURSIVE Join(_, _)
\* sep.join(parts)
Join(sep, parts) ==
    IF parts = <<>> THEN <<>>
    ELSE IF Len(parts) = 1 THEN Head(parts)
    ELSE Head(parts) \o sep \o Join(sep, Tail(parts))

RECURSIVE Replace(_, _)
\* text.replace(token, ""): every occurrence of the token is removed
Replace(text, token) ==
    IF text = <<>> THEN <<>>
    ELSE IF Head(text) = token THEN Replace(Tail(text), token)
    ELSE <<Head(text)>> \o Replace(Tail(text), token)

\* text[:-1]: the text without its last character (the last tokens of the
\* statements of the model are one character long)
DropLast(text) == IF text = <<>> THEN <<>> ELSE SubSeq(text, 1, Len(text) - 1)

\* str.upper() on the names of the partitioning methods
upper(s) == CASE s = "range" -> "RANGE"
              [] s = "list" -> "LIST"
              [] OTHER -> s

sql_partition_by == <<" PARTITION BY ", "%s", " (", "%s", ")">>
sql_add_default_partition ==
    <<"CREATE TABLE ", "%s", " PARTITION OF ", "%s", " DEFAULT">>
sql_add_range_partition ==
    <<"CREATE TABLE ", "%s", " PARTITION OF ", "%s",
      " FOR VALUES FROM (", "%s", ") TO (", "%s", ")">>
sql_add_list_partition ==
    <<"CREATE TABLE ", "%s", " PARTITION OF ", "%s",
      " FOR VALUES IN (", "%s", ")">>

\* ------------------------------------------------------------------ models

\* the members of the enum PostgresPartitioningMethod
PostgresPartitioningMethod == {"range", "list"}

\* the fields of the one table of the model, the primary key first
FieldNames == <<"id", "ts">>
\* what a partitioning key may name: the primary key, another field, and a
\* name that is no field of the table
KeyNames == {"id", "ts", "nope"}

\* what a model may carry as partitioning_method: nothing, a member of the
\* enum, a string that is no member
MethodValues == {None, Scalar("range"), Scalar("list"), Scalar("hash")}
\* what a model may carry as partitioning_key: nothing, a bare string, a
\* list of names (the empty list too)
KeyValues ==
    {None, Scalar("ts")} \cup {List(k) : k \in SeqsUpTo(KeyNames, MaxKeyLen)}

Models ==
    [name : {"Parent"}, db_table : {"parent"}, pk : {"id"},
     fields : {FieldNames},
     partitioning_method : MethodValues, partitioning_key : KeyValues]

\* model._meta.get_field(field_name) raises FieldDoesNotExist
FieldDoesNotExist(model, field_name) == field_name \notin Range(model.fields)

\* ------------------------------------------------------------------ errors

NoError == [exc |-> "None", check |-> "", args |-> <<>>]
Error(exc, check, args) == [exc |-> exc, check |-> check, args |-> args]
Raised(e) == e.exc # "None"

\* a variant that never looks the names of the key up among the fields
_partitioning_properties_unresolved(model) ==
    LET partitioning_method == model.partitioning_method
        partitioning_key == model.partitioning_key
    IN  IF Falsy(partitioning_method) \/ Falsy(partitioning_key)
        THEN [exc |-> Error("ImproperlyConfigured", "not set",
                            <<Scalar(model.name)>>),
              ret |-> <<>>]
        ELSE IF partitioning_method.items[1] \notin PostgresPartitioningMethod
        THEN [exc |-> Error("ImproperlyConfigured", "not a member",
                            <<Scalar(model.name), partitioning_method>>),
              ret |-> <<>>]
        ELSE IF partitioning_key.tag # "list"
        THEN [exc |-> Error("ImproperlyConfigured", "not a list",
                            <<Scalar(model.name)>>),
              ret |-> <<>>]
        ELSE [exc |-> NoError,
              ret |-> <<partitioning_method, partitioning_key>>]

\* a variant that looks at the type of the key before the method
_partitioning_properties_key_type_first(model) ==
    LET partitioning_method == model.partitioning_method
        partitioning_key == model.partitioning_key
    IN  IF Falsy(partitioning_method) \/ Falsy(partitioning_key)
        THEN [exc |-> Error("ImproperlyConfigured", "not set",
                            <<Scalar(model.name)>>),
              ret |-> <<>>]
        ELSE IF partitioning_key.tag # "list"
        THEN [exc |-> Error("ImproperlyConfigured", "not a list",
                            <<Scalar(model.name)>>),
              ret |-> <<>>]
        ELSE IF partitioning_method.items[1] \notin PostgresPartitioningMethod
        THEN [exc |-> Error("ImproperlyConfigured", "not a member",
                            <<Scalar(model.name), partitioning_method>>),
              ret |-> <<>>]
        ELSE IF \E i \in 1..PyLen(partitioning_key) :
                    FieldDoesNotExist(model, partitioning_key.items[i])
        THEN [exc |-> Error("ImproperlyConfigured", "not a valid field",
                            <<Scalar(model.name), partitioning_key>>),
              ret |-> <<>>]
        ELSE [exc |-> NoError,
              ret |-> <<partitioning_method, partitioning_key>>]

\* _partitioning_properties_for_model: the checks in the order of the code,
\* the first violated one raises; otherwise (method, key) is returned
_partitioning_properties_for_model(model) ==
    LET partitioning_method == model.partitioning_method
        partitioning_key == model.partitioning_key
    IN  IF Falsy(partitioning_method) \/ Falsy(partitioning_key)
        THEN [exc |-> Error("ImproperlyConfigured", "not set",
                            <<Scalar(model.name)>>),
              ret |-> <<>>]
        ELSE IF partitioning_method.items[1] \notin PostgresPartitioningMethod
        THEN [exc |-> Error("ImproperlyConfigured", "not a member",
                            <<Scalar(model.name), partitioning_method>>),
              ret |-> <<>>]
        ELSE IF partitioning_key.tag # "list"
        THEN [exc |-> Error("ImproperlyConfigured", "not a list",
                            <<Scalar(model.name)>>),
              ret |-> <<>>]
        ELSE IF \E i \in 1..PyLen(partitioning_key) :
                    FieldDoesNotExist(model, partitioning_key.items[i])
        THEN [exc |-> Error("ImproperlyConfigured", "not a valid field",
                            <<Scalar(model.name), partitioning_key>>),
              ret |-> <<>>]
        ELSE [exc |-> NoError,
              ret |-> <<partitioning_method, partitioning_key>>]

\* ---------------------------------------------------------------- sessions

\* the schema editors a run may construct
Sessions == {"s1", "s2"}

\* the side effects that may be registered on the class
Handlers == {"HStoreUnique", "HStoreRequired"}

\* what a hook of a side effect does when it is invoked: nothing, issue a
\* statement through the execute bound on the side effect, or raise
Behaviours == {"pass", "sql", "raise"}

\* what self.execute of a schema editor may be: the method of the class, the
\* capturing function that _extract_sql installs, the deep copy of the
\* method that _extract_sql puts back
Capabilities == {"execute", "_intercept", "original_execute_func"}

\* ------------------------------------------------------------------ events

\* arguments of a call to execute
SqlArg(text) == [tag |-> "sql", items |-> text]
ParamsArg(values) == [tag |-> "params", items |-> values]

\* one event of a call: `by` is who acts (the session's own code, the base
\* engine, a side effect), `what` names the operation or the capability,
\* `on` the session whose capability is used
Ev(kind, by, what, on, args) ==
    [kind |-> kind, by |-> by, what |-> what, on |-> on, args |-> args]

\* the environment of one call: the session, the registered side effects
\* and the execute bound on each, how the hooks and the base engine behave
\*   env.s, env.se, env.hx, env.beh, env.base

\* self.execute(*args) with self.execute being `cap`: the capturing function
\* records the arguments, the other capabilities run the statement
SelfExecute(env, cap, by, args) ==
    IF cap = "_intercept"
    THEN <<Ev("intercept", by, cap, env.s, args)>>
    ELSE <<Ev("execute", by, cap, env.s, args)>>

\* the statement a hook issues
HookSql(hook) == <<"-- side effect of ", hook>>

\* side_effect.<hook>(...): the hook runs with the execute that __init__
\* bound on the side effect, the method of session env.hx[h]
Hook(env, h, hook) ==
    LET called == Ev("hook", h, hook, env.hx[h], <<>>)
    IN  CASE env.beh[h] = "sql" ->
               [trace |-> <<called,
                            Ev("execute", h, "execute", env.hx[h],
                               <<SqlArg(HookSql(hook))>>)>>,
                exc |-> NoError]
          [] env.beh[h] = "raise" ->
               [trace |-> <<called, Ev("hook_raise", h, hook, env.hx[h], <<>>)>>,
                exc |-> Error("HandlerError", hook, <<Scalar(h)>>)]
          [] OTHER -> [trace |-> <<called>>, exc |-> NoError]

RECURSIVE DispatchFrom(_, _, _)
\* for side_effect in self.side_effects[i:]: side_effect.<hook>(...)
DispatchFrom(env, hook, i) ==
    IF i > Len(env.se) THEN [trace |-> <<>>, exc |-> NoError]
    ELSE LET one == Hook(env, env.se[i], hook)
         IN  IF Raised(one.exc) THEN one
             ELSE LET rest == DispatchFrom(env, hook, i + 1)
                  IN  [trace |-> one.trace \o rest.trace, exc |-> rest.exc]

\* a variant that walks the side effects from the last one to the first
Dispatch_reversed(env, hook) ==
    LET n == Len(env.se)
    IN  DispatchFrom([env EXCEPT !.se = [i \in 1..n |-> env.se[n + 1 - i]]],
                     hook, 1)

\* for side_effect in self.side_effects: side_effect.<hook>(...)
Dispatch(env, hook) == DispatchFrom(env, hook, 1)

\* the statement the base engine builds for an ordinary CREATE TABLE
BaseCreateSql(model) ==
    <<"CREATE TABLE ">> \o quote_name(model.db_table) \o <<" (">>
    \o quote_name(model.fields[1]) \o <<" serial NOT NULL", " PRIMARY KEY">>
    \o <<", ">> \o quote_name(model.fields[2])
    \o <<" timestamp with time zone NOT NULL", ")">>

\* the statement of a related table the base create_model creates as well
RelatedCreateSql(model, i) ==
    <<"CREATE TABLE ">> \o quote_name(model.db_table) \o <<"_related">>
    \o <<" (">> \o quote_name("id") \o <<" serial NOT NULL", " PRIMARY KEY", ")">>

\* the statements the base engine passes to self.execute in operation op
BaseStatements(env, op, model) ==
    IF op = "create_model"
    THEN <<BaseCreateSql(model)>>
         \o [i \in 1..env.base.related |-> RelatedCreateSql(model, i)]
    ELSE <<<<"-- base ", op>>>>

\* super().<op>(...): the base engine runs its statements through
\* self.execute, which is `cap` at that moment, or raises
Base(env, cap, op, model) ==
    LET called == Ev("base_call", "base", op, env.s, <<>>)
        stmts == BaseStatements(env, op, model)
    IN  IF env.base.raises
        THEN [trace |-> <<called,
                          Ev("base_raise", "base", op, env.s, <<>>)>>,
              exc |-> Error("BaseError", op, <<>>)]
        ELSE [trace |->
                <<called>>
                \o Concat([i \in 1..Len(stmts) |->
                     SelfExecute(env, cap, "base",
                                 <<SqlArg(stmts[i]), ParamsArg(<<>>)>>)])
                \o <<Ev("base_return", "base", op, env.s, <<>>)>>,
              exc |-> NoError]

\* an operation that delegates to the base engine and then runs the hooks
BaseThenHooks(env, cap, op, model) ==
    LET b == Base(env, cap, op, model)
    IN  IF Raised(b.exc) THEN b
        ELSE LET d == Dispatch(env, op)
             IN  [trace |-> b.trace \o d.trace, exc |-> d.exc]

\* an operation that runs the hooks and then delegates to the base engine
HooksThenBase(env, cap, op, model) ==
    LET d == Dispatch(env, op)
    IN  IF Raised(d.exc) THEN d
        ELSE LET b == Base(env, cap, op, model)
             IN  [trace |-> d.trace \o b.trace, exc |-> b.exc]

\* a variant of delete_model that drops the table before it runs the hooks
delete_model_base_first(env, cap, model) ==
    BaseThenHooks(env, cap, "delete_model", model)

\* a variant of remove_field that removes the column whatever the hooks did
remove_field_regardless(env, cap, model) ==
    LET d == Dispatch(env, "remove_field")
        b == Base(env, cap, "remove_field", model)
    IN  [trace |-> d.trace \o b.trace,
         exc |-> IF Raised(d.exc) THEN d.exc ELSE b.exc]

\* a variant of create_model that runs the hooks although the base engine
\* raised
create_model_hooks_anyway(env, cap, model) ==
    LET b == Base(env, cap, "create_model", model)
        d == Dispatch(env, "create_model")
    IN  [trace |-> b.trace \o d.trace,
         exc |-> IF Raised(b.exc) THEN b.exc ELSE d.exc]

create_model(env, cap, model) == BaseThenHooks(env, cap, "create_model", model)
delete_model(env, cap, model) == HooksThenBase(env, cap, "delete_model", model)
alter_db_table(env, cap, model) ==
    BaseThenHooks(env, cap, "alter_db_table", model)
add_field(env, cap, model) == BaseThenHooks(env, cap, "add_field", model)
remove_field(env, cap, model) == HooksThenBase(env, cap, "remove_field", model)
alter_field(env, cap, model) == BaseThenHooks(env, cap, "alter_field", model)

\* copy.deepcopy(self.execute): a function is copied as itself, a bound
\* method as the method bound to a deep copy of the schema editor
DeepCopy(cap) ==
    IF cap = "_intercept" THEN "_intercept" ELSE "original_execute_func"

\* intercepted_args after the call: the arguments of every captured call,
\* one after the other (list.extend)
InterceptedArgs(trace) ==
    Concat([i \in 1..Len(trace) |->
              IF trace[i].kind = "intercept" THEN trace[i].args ELSE <<>>])

\* _extract_sql(self.create_model, model): self.execute is the capturing
\* function while create_model runs, and is put back after it returned
_extract_sql(env, cap, model) ==
    LET original_execute_func == DeepCopy(cap)
        entered == Ev("extract_enter", "session", "_extract_sql", env.s, <<>>)
        method == create_model(env, "_intercept", model)
    IN  IF Raised(method.exc)
        THEN [trace |-> <<entered>> \o method.trace,
              exc |-> method.exc,
              execute |-> "_intercept",
              ret |-> <<>>]
        ELSE [trace |-> <<entered>> \o method.trace
                        \o <<Ev("extract_exit", "session", "_extract_sql",
                                env.s, <<>>)>>,
              exc |-> NoError,
              execute |-> original_execute_func,
              ret |-> InterceptedArgs(method.trace)]

\* ", ".join(self.quote_name(field_name) for field_name in partitioning_key)
PartitioningKeySql(partitioning_key) ==
    Join(<<", ">>, [i \in 1..PyLen(partitioning_key) |->
                      quote_name(partitioning_key.items[i])])

\* a variant that lists the key columns of the primary key last to first
PartitionedCreateSql_reversed(sql, model, partitioning_method, partitioning_key) ==
    LET n == PyLen(partitioning_key)
        reversed == List([i \in 1..n |-> partitioning_key.items[n + 1 - i]])
        stripped == Replace(sql, " PRIMARY KEY")
        keyed == DropLast(stripped)
                 \o Format(<<", PRIMARY KEY (", "%s", ", ", "%s", "))">>,
                           <<quote_name(model.pk),
                             PartitioningKeySql(reversed)>>)
    IN  keyed \o Format(sql_partition_by,
                        <<<<upper(partitioning_method.items[1])>>,
                          PartitioningKeySql(partitioning_key)>>)

\* the statement create_partitioned_model makes of the intercepted one
PartitionedCreateSql(sql, model, partitioning_method, partitioning_key) ==
    LET partitioning_key_sql == PartitioningKeySql(partitioning_key)
        stripped == Replace(sql, " PRIMARY KEY")
        keyed == DropLast(stripped)
                 \o Format(<<", PRIMARY KEY (", "%s", ", ", "%s", "))">>,
                           <<quote_name(model.pk), partitioning_key_sql>>)
    IN  keyed \o Format(sql_partition_by,
                        <<<<upper(partitioning_method.items[1])>>,
                          partitioning_key_sql>>)

create_partitioned_model(env, cap, model) ==
    LET props == _partitioning_properties_for_model(model)
    IN  IF Raised(props.exc)
        THEN [trace |-> <<>>, exc |-> props.exc, execute |-> cap]
        ELSE
        LET x == _extract_sql(env, cap, model)
        IN  IF Raised(x.exc)
            THEN [trace |-> x.trace, exc |-> x.exc, execute |-> x.execute]
            ELSE IF Len(x.ret) # 2
            THEN \* sql, params = ...: not two values to unpack
                 [trace |-> x.trace,
                  exc |-> Error("ValueError", "unpack",
                                <<Scalar(model.name)>>),
                  execute |-> x.execute]
            ELSE
            LET sql == PartitionedCreateSql(x.ret[1].items, model,
                                            props.ret[1], props.ret[2])
                params == x.ret[2]
            IN  [trace |-> x.trace
                           \o SelfExecute(env, x.execute, "session",
                                          <<SqlArg(sql), params>>),
                 exc |-> NoError,
                 execute |-> x.execute]

\* a variant that binds the two bounds in the wrong order
add_range_partition_swapped(env, cap, model, name, from_values, to_values) ==
    LET props == _partitioning_properties_for_model(model)
        sql == Format(sql_add_range_partition,
                      <<quote_name(name), quote_name(model.db_table),
                        <<"%s">>, <<"%s">>>>)
    IN  IF Raised(props.exc)
        THEN [trace |-> <<>>, exc |-> props.exc, execute |-> cap]
        ELSE [trace |-> SelfExecute(env, cap, "session",
                          <<SqlArg(sql), ParamsArg(<<to_values, from_values>>)>>),
              exc |-> NoError,
              execute |-> cap]

add_range_partition(env, cap, model, name, from_values, to_values) ==
    LET props == _partitioning_properties_for_model(model)
        sql == Format(sql_add_range_partition,
                      <<quote_name(name), quote_name(model.db_table),
                        <<"%s">>, <<"%s">>>>)
    IN  IF Raised(props.exc)
        THEN [trace |-> <<>>, exc |-> props.exc, execute |-> cap]
        ELSE [trace |-> SelfExecute(env, cap, "session",
                          <<SqlArg(sql), ParamsArg(<<from_values, to_values>>)>>),
              exc |-> NoError,
              execute |-> cap]

\* a variant that writes one placeholder however many values there are
add_list_partition_one_placeholder(env, cap, model, name, values) ==
    LET props == _partitioning_properties_for_model(model)
        sql == Format(sql_add_list_partition,
                      <<quote_name(name), quote_name(model.db_table),
                        <<"%s">>>>)
    IN  IF Raised(props.exc)
        THEN [trace |-> <<>>, exc |-> props.exc, execute |-> cap]
        ELSE [trace |-> SelfExecute(env, cap, "session",
                          <<SqlArg(sql), ParamsArg(Elements(values))>>),
              exc |-> NoError,
              execute |-> cap]

add_list_partition(env, cap, model, name, values) ==
    LET props == _partitioning_properties_for_model(model)
        sql == Format(sql_add_list_partition,
                      <<quote_name(name), quote_name(model.db_table),
                        Join(<<",">>, [i \in 1..PyLen(values) |-> <<"%s">>])>>)
    IN  IF Raised(props.exc)
        THEN [trace |-> <<>>, exc |-> props.exc, execute |-> cap]
        ELSE [trace |-> SelfExecute(env, cap, "session",
                          <<SqlArg(sql), ParamsArg(Elements(values))>>),
              exc |-> NoError,
              execute |-> cap]

\* a variant that hands execute an empty parameter list as well
add_default_partition_with_params(env, cap, model, name) ==
    LET props == _partitioning_properties_for_model(model)
        sql == Format(sql_add_default_partition,
                      <<quote_name(name), quote_name(model.db_table)>>)
    IN  IF Raised(props.exc)
        THEN [trace |-> <<>>, exc |-> props.exc, execute |-> cap]
        ELSE [trace |-> SelfExecute(env, cap, "session",
                          <<SqlArg(sql), ParamsArg(<<>>)>>),
              exc |-> NoError,
              execute |-> cap]

add_default_partition(env, cap, model, name) ==
    LET props == _partitioning_properties_for_model(model)
        sql == Format(sql_add_default_partition,
                      <<quote_name(name), quote_name(model.db_table)>>)
    IN  IF Raised(props.exc)
        THEN [trace |-> <<>>, exc |-> props.exc, execute |-> cap]
        ELSE [trace |-> SelfExecute(env, cap, "session", <<SqlArg(sql)>>),
              exc |-> NoError,
              execute |-> cap]

\* ------------------------------------------------------------------- state

VARIABLES
    sessions,            \* the schema editors constructed so far
    side_effects,        \* the class attribute: the registered side effects
    handler_execute,     \* side_effect.execute: the session it is bound to
    handler_quote_name,  \* side_effect.quote_name: the session it is bound to
    execute,             \* self.execute of each schema editor
    call,                \* the call that ran last, with its arguments
    trace,               \* the events of that call, in order
    result               \* what that call raised, NoError when it returned

vars == <<sessions, side_effects, handler_execute, handler_quote_name,
          execute, call, trace, result>>

Unbound == "unbound"
Idle == [op |-> "idle", session |-> "none"]

\* the tables whose partitions are added, the values of their bounds
PartitionNames == {"p1"}
FromValues == {Scalar("0"), List(<<"0">>)}
ToValues == {Scalar("100"), List(<<"100">>)}
ListValues == {List(v) : v \in SeqsUpTo({"a", "b"}, MaxValues)}

\* a model that is not set up for partitioning
PlainModel ==
    [name |-> "Parent", db_table |-> "parent", pk |-> "id",
     fields |-> FieldNames,
     partitioning_method |-> None, partitioning_key |-> None]

\* how the hooks of the registered side effects may behave in one call
HookBehaviours ==
    {b \in [Handlers -> Behaviours] :
        \A h \in Handlers : h \notin Range(side_effects) => b[h] = "pass"}

\* how the base engine may behave in one call of create_model: it raises,
\* or it executes the CREATE TABLE and one more statement per related table
BaseCreateBehaviours ==
    {[raises |-> TRUE, related |-> 0]}
    \cup {[raises |-> FALSE, related |-> n] : n \in 0..MaxRelated}
\* and in the other operations
BaseBehaviours == [raises : BOOLEAN, related : {0}]
DefaultBase == [raises |-> FALSE, related |-> 0]
NoHooks == [h \in Handlers |-> "pass"]

Env(s, beh, base) ==
    [s |-> s, se |-> side_effects, hx |-> handler_execute,
     beh |-> beh, base |-> base]

Init ==
    /\ sessions = {}
    /\ side_effects \in {q \in SeqsUpTo(Handlers, Cardinality(Handlers)) :
                            Injective(q)}
    /\ handler_execute = [h \in Handlers |-> Unbound]
    /\ handler_quote_name = [h \in Handlers |-> Unbound]
    /\ execute = [s \in Sessions |-> Unbound]
    /\ call = Idle
    /\ trace = <<>>
    /\ result = NoError

\* PostgresSchemaEditor(connection): the execute and quote_name of the new
\* schema editor are bound on every registered side effect
NewSession(s) ==
    /\ call = Idle
    /\ s \notin sessions
    /\ sessions' = sessions \cup {s}
    /\ execute' = [execute EXCEPT ![s] = "execute"]
    /\ handler_execute' =
         [h \in Handlers |->
            IF h \in Range(side_effects) THEN s ELSE handler_execute[h]]
    /\ handler_quote_name' =
         [h \in Handlers |->
            IF h \in Range(side_effects) THEN s ELSE handler_quote_name[h]]
    /\ call' = [op |-> "__init__", session |-> s]
    /\ trace' = <<>>
    /\ result' = NoError
    /\ UNCHANGED side_effects

\* the caller takes the outcome of the call and goes on
Return ==
    /\ call # Idle
    /\ call' = Idle
    /\ trace' = <<>>
    /\ result' = NoError
    /\ UNCHANGED <<sessions, side_effects, handler_execute,
                   handler_quote_name, execute>>

\* what a call leaves behind: its events, what it raised, and self.execute
Finish(s, c, run, cap) ==
    /\ call' = c
    /\ trace' = run.trace
    /\ result' = run.exc
    /\ execute' = [execute EXCEPT ![s] = cap]
    /\ UNCHANGED <<sessions, side_effects, handler_execute,
                   handler_quote_name>>

\* one of the six mutation operations, which leave self.execute alone
Mutation(s, op, beh, base, run) ==
    Finish(s, [op |-> op, session |-> s, beh |-> beh, base |-> base],
           run, execute[s])

CreateModel(s) ==
    /\ call = Idle /\ s \in sessions
    /\ \E beh \in HookBehaviours, base \in BaseCreateBehaviours :
         Mutation(s, "create_model", beh, base,
                  create_model(Env(s, beh, base), execute[s], PlainModel))

DeleteModel(s) ==
    /\ call = Idle /\ s \in sessions
    /\ \E beh \in HookBehaviours, base \in BaseBehaviours :
         Mutation(s, "delete_model", beh, base,
                  delete_model(Env(s, beh, base), execute[s], PlainModel))

AlterDbTable(s) ==
    /\ call = Idle /\ s \in sessions
    /\ \E beh \in HookBehaviours, base \in BaseBehaviours :
         Mutation(s, "alter_db_table", beh, base,
                  alter_db_table(Env(s, beh, base), execute[s], PlainModel))

AddField(s) ==
    /\ call = Idle /\ s \in sessions
    /\ \E beh \in HookBehaviours, base \in BaseBehaviours :
         Mutation(s, "add_field", beh, base,
                  add_field(Env(s, beh, base), execute[s], PlainModel))

RemoveField(s) ==
    /\ call = Idle /\ s \in sessions
    /\ \E beh \in HookBehaviours, base \in BaseBehaviours :
         Mutation(s, "remove_field", beh, base,
                  remove_field(Env(s, beh, base), execute[s], PlainModel))

AlterField(s) ==
    /\ call = Idle /\ s \in sessions
    /\ \E beh \in HookBehaviours, base \in BaseBehaviours :
         Mutation(s, "alter_field", beh, base,
                  alter_field(Env(s, beh, base), execute[s], PlainModel))

CreatePartitionedModel(s) ==
    /\ call = Idle /\ s \in sessions
    /\ \E model \in Models, beh \in HookBehaviours,
          base \in BaseCreateBehaviours :
         LET run == create_partitioned_model(Env(s, beh, base), execute[s],
                                             model)
         IN  Finish(s, [op |-> "create_partitioned_model", session |-> s,
                        model |-> model, beh |-> beh, base |-> base],
                    run, run.execute)

AddRangePartition(s) ==
    /\ call = Idle /\ s \in sessions
    /\ \E model \in Models, name \in PartitionNames,
          from_values \in FromValues, to_values \in ToValues :
         LET run == add_range_partition(Env(s, NoHooks, DefaultBase),
                        execute[s], model, name, from_values, to_values)
         IN  Finish(s, [op |-> "add_range_partition", session |-> s,
                        model |-> model, name |-> name,
                        from_values |-> from_values, to_values |-> to_values],
                    run, run.execute)

AddListPartition(s) ==
    /\ call = Idle /\ s \in sessions
    /\ \E model \in Models, name \in PartitionNames, values \in ListValues :
         LET run == add_list_partition(Env(s, NoHooks, DefaultBase),
                        execute[s], model, name, values)
         IN  Finish(s, [op |-> "add_list_partition", session |-> s,
                        model |-> model, name |-> name, values |-> values],
                    run, run.execute)

AddDefaultPartition(s) ==
    /\ call = Idle /\ s \in sessions
    /\ \E model \in Models, name \in PartitionNames :
         LET run == add_default_partition(Env(s, NoHooks, DefaultBase),
                        execute[s], model, name)
         IN  Finish(s, [op |-> "add_default_partition", session |-> s,
                        model |-> model, name |-> name],
                    run, run.execute)

Next ==
    \/ \E s \in Sessions : NewSession(s)
    \/ \E s \in Sessions : CreateModel(s)
    \/ \E s \in Sessions : CreatePartitionedModel(s)
    \/ \E s \in Sessions : AddRangePartition(s)
    \/ \E s \in Sessions : AddListPartition(s)
    \/ \E s \in Sessions : AddDefaultPartition(s)
    \/ \E s \in Sessions : DeleteModel(s)
    \/ \E s \in Sessions : AlterDbTable(s)
    \/ \E s \in Sessions : AddField(s)
    \/ \E s \in Sessions : RemoveField(s)
    \/ \E s \in Sessions : AlterField(s)
    \/ Return

Spec == Init /\ [][Next]_vars

\* ------------------------------------------------------- reading the trace

\* the positions of the events of one kind
Indices(kind) == {i \in 1..Len(trace) : trace[i].kind = kind}

\* the side effects whose hook ran, in the order in which they ran
HooksInvoked ==
    LET IsHook(e) == e.kind = "hook"
        hooks == SelectSeq(trace, IsHook)
    IN  [i \in 1..Len(hooks) |-> hooks[i].by]

IsPrefix(p, q) == Len(p) <= Len(q) /\ SubSeq(q, 1, Len(p)) = p

\* the events in which a statement is handed to an execute capability, be
\* it run or captured
Statements == Indices("execute") \cup Indices("intercept")

\* the positions at which _extract_sql is active: after it was entered and
\* not after it has exited
DuringExtract ==
    {i \in 1..Len(trace) :
        /\ \E e \in Indices("extract_enter") : e < i
        /\ \A x \in Indices("extract_exit") : i < x}

\* the statement of an event, and whether it creates a table
SqlOf(e) == e.args[1].items
IsCreateTable(e) ==
    /\ e.kind = "execute"
    /\ e.by \in {"base", "session"}
    /\ e.args # <<>>
    /\ SqlOf(e)[1] = "CREATE TABLE "

MutationOps ==
    {"create_model", "delete_model", "alter_db_table", "add_field",
     "remove_field", "alter_field"}
HooksFirstOps == {"delete_model", "remove_field"}
BaseFirstOps == MutationOps \ HooksFirstOps
PartitionOps ==
    {"create_partitioned_model", "add_range_partition",
     "add_list_partition", "add_default_partition"}

\* ------------------------------------------------------------------ claims

\* C1: once _extract_sql has exited, by returning or by raising, the
\* execute capability of the session is the original one again and not the
\* capturing substitute.
C1_ExecuteRestored ==
    (call.op = "create_partitioned_model" /\ Indices("extract_enter") # {})
        => execute[call.session] \in {"execute", "original_execute_func"}

\* C2: while _extract_sql(create_model, model) is active no statement
\* reaches a real execute capability, whatever the side effects do.
C2_NothingExecutedDuringExtract ==
    call.op = "create_partitioned_model"
        => \A i \in DuringExtract : trace[i].kind # "execute"

\* C3: in a table-creating operation no hook of a side effect is invoked
\* before the CREATE TABLE statement of the operation was really executed.
C3_HooksAfterCreateTable ==
    call.op \in {"create_model", "create_partitioned_model"}
        => \A i \in Indices("hook") :
              \E j \in 1..(i - 1) : IsCreateTable(trace[j])

\* C4: whenever a session dispatches a hook to a side effect, the execute
\* (and quote_name) the side effect holds is that session's own.
C4_HandlerHoldsOwnExecute ==
    \A i \in Indices("hook") :
        /\ trace[i].on = call.session
        /\ handler_execute[trace[i].by] = call.session
        /\ handler_quote_name[trace[i].by] = call.session

\* the columns of the PRIMARY KEY (...) constraint of a statement
PrimaryKeyColumns(sql) ==
    LET start == CHOOSE i \in 1..Len(sql) : sql[i] = ", PRIMARY KEY ("
        stop == CHOOSE j \in (start + 1)..Len(sql) : sql[j] = "))"
        NotComma(t) == t # ", "
    IN  SelectSeq(SubSeq(sql, start + 1, stop - 1), NotComma)

\* the statement a successful create_partitioned_model hands to execute
FinalSql == SqlOf(trace[Len(trace)])

\* C5: the primary key of the statement create_partitioned_model produces
\* is the original primary-key column followed by the partitioning-key
\* columns in declared order, and no column occurs in it twice.
C5_PrimaryKeyColumns ==
    (call.op = "create_partitioned_model" /\ ~Raised(result))
        => LET key == call.model.partitioning_key
               cols == PrimaryKeyColumns(FinalSql)
           IN  /\ cols = quote_name(call.model.pk)
                         \o [i \in 1..PyLen(key) |->
                               quote_name(key.items[i])[1]]
               /\ Injective(cols)

\* the descriptors C6 is about, stated without the validation code
MissingMethodOrKey(model) ==
    model.partitioning_method = None \/ model.partitioning_key = None
MethodNotRecognised(model) ==
    /\ model.partitioning_method # None
    /\ model.partitioning_method \notin {Scalar("range"), Scalar("list")}
KeyNotSequence(model) == model.partitioning_key.tag = "scalar"
KeyNamesUnknownField(model) ==
    /\ model.partitioning_key.tag = "list"
    /\ \E i \in 1..Len(model.partitioning_key.items) :
          model.partitioning_key.items[i] \notin {"id", "ts"}
InvalidDescriptor(model) ==
    \/ MissingMethodOrKey(model)
    \/ MethodNotRecognised(model)
    \/ KeyNotSequence(model)
    \/ KeyNamesUnknownField(model)

\* C6: on an invalid descriptor each of the four partitioning operations
\* fails with a configuration error before anything is built or executed:
\* no statement reaches execute (real or capturing) and the base engine is
\* not called, so the call leaves no event at all.
C6_InvalidDescriptorFailsFirst ==
    (call.op \in PartitionOps /\ InvalidDescriptor(call.model))
        => /\ result.exc = "ImproperlyConfigured"
           /\ trace = <<>>

C6_Witness ==
    /\ call.op = "add_range_partition"
    /\ call.model.partitioning_method = Scalar("range")
    /\ call.model.partitioning_key = List(<<"ts", "nope">>)
    /\ result.exc = "ImproperlyConfigured"
    /\ trace = <<>>

\* C7: in each of the six mutation operations the hooks run in
\* registration order, the matching hook of every side effect exactly once
\* when nothing raises before or in the hooks; so a permuted list of side
\* effects gives the order permuted in the same way.
C7_RegistrationOrder ==
    call.op \in MutationOps
        => /\ IsPrefix(HooksInvoked, side_effects)
           /\ \A i \in Indices("hook") : trace[i].what = call.op
           /\ (\/ ~Raised(result)
               \/ (call.op \in HooksFirstOps /\ result.exc = "BaseError"))
                 => HooksInvoked = side_effects

C7_Witness ==
    /\ call.op = "alter_field"
    /\ ~Raised(result)
    /\ side_effects = <<"HStoreRequired", "HStoreUnique">>
    /\ HooksInvoked = <<"HStoreRequired", "HStoreUnique">>

\* C8: delete_model and remove_field run every hook before the base engine
\* is called; create_model, add_field, alter_field and alter_db_table run
\* every hook after the call of the base engine has returned.
C8_HooksBeforeOrAfterBase ==
    /\ call.op \in HooksFirstOps
         => \A i \in Indices("hook"), j \in Indices("base_call") : i < j
    /\ call.op \in BaseFirstOps
         => \A i \in Indices("hook") :
               \E j \in Indices("base_return") : j < i

C8_Witness ==
    /\ call.op = "delete_model"
    /\ ~Raised(result)
    /\ Len(HooksInvoked) = 2
    /\ Indices("base_call") # {}

\* C9: a hook that raises ends the call there: no later side effect is
\* invoked, the error reaches the caller, and in remove_field and
\* delete_model the base engine is not called and executes nothing.
C9_RaisingHookAborts ==
    \A i \in Indices("hook_raise") :
        /\ i = Len(trace)
        /\ result.exc = "HandlerError"
        /\ IsPrefix(HooksInvoked, side_effects)
        /\ trace[i].by = HooksInvoked[Len(HooksInvoked)]
        /\ call.op \in HooksFirstOps
             => /\ Indices("base_call") = {}
                /\ \A j \in Statements : trace[j].by # "base"

C9_Witness ==
    /\ call.op = "remove_field"
    /\ Len(side_effects) = 2
    /\ call.beh[side_effects[1]] = "raise"
    /\ call.beh[side_effects[2]] = "sql"
    /\ result.exc = "HandlerError"
    /\ HooksInvoked = <<side_effects[1]>>
    /\ Indices("base_call") = {}

\* the statement add_range_partition is to hand to execute
RangePartitionSql(name, table) ==
    <<"CREATE TABLE ", "\"" \o name \o "\"", " PARTITION OF ",
      "\"" \o table \o "\"", " FOR VALUES FROM (", "%s", ") TO (", "%s", ")">>

\* a value as flat values: the elements of a list, a single value as it is
Flat(v) == IF v.tag = "list" THEN Elements(v) ELSE <<v>>

PartitionOfSql(name, table) ==
    <<"CREATE TABLE ", "\"" \o name \o "\"", " PARTITION OF ",
      "\"" \o table \o "\"">>

\* how often a token occurs in a text
Count(text, token) == Cardinality({i \in 1..Len(text) : text[i] = token})

\* C11: add_list_partition hands execute one statement CREATE TABLE <name>
\* PARTITION OF <parent> FOR VALUES IN (...) whose IN clause holds exactly
\* len(values) placeholders, separated by commas, and whose parameters are
\* the values in the order given.
C11_OnePlaceholderPerValue ==
    (call.op = "add_list_partition" /\ ~Raised(result))
        => /\ Len(trace) = 1
           /\ Statements = {1}
           /\ Len(trace[1].args) = 2
           /\ LET sql == SqlOf(trace[1])
                  inner == SubSeq(sql, 6, Len(sql) - 1)
                  n == Len(call.values.items)
              IN  /\ Len(sql) >= 6
                  /\ SubSeq(sql, 1, 5)
                       = PartitionOfSql(call.name, call.model.db_table)
                          \o <<" FOR VALUES IN (">>
                  /\ sql[Len(sql)] = ")"
                  /\ Count(inner, "%s") = n
                  /\ Count(sql, "%s") = n
                  /\ \A i \in 1..Len(inner) :
                        inner[i] = IF i % 2 = 1 THEN "%s" ELSE ","
                  /\ n > 0 => Len(inner) = 2 * n - 1
           /\ trace[1].args[2].tag = "params"
           /\ trace[1].args[2].items
                = [i \in 1..Len(call.values.items) |->
                     Scalar(call.values.items[i])]

C11_Witness ==
    /\ call.op = "add_list_partition"
    /\ ~Raised(result)
    /\ call.values = List(<<"a", "b">>)
    /\ trace[1].kind = "execute"
    /\ Count(SqlOf(trace[1]), "%s") = 2
    /\ trace[1].args[2].items = <<Scalar("a"), Scalar("b")>>

\* C12: add_default_partition hands execute exactly one statement, CREATE
\* TABLE <name> PARTITION OF <parent> DEFAULT, with no parameters and no
\* FOR VALUES clause.
C12_DefaultPartitionStatement ==
    (call.op = "add_default_partition" /\ ~Raised(result))
        => /\ Len(trace) = 1
           /\ Statements = {1}
           /\ Len(trace[1].args) = 1
           /\ trace[1].args[1]
                = SqlArg(PartitionOfSql(call.name, call.model.db_table)
                         \o <<" DEFAULT">>)
           /\ Count(SqlOf(trace[1]), "%s") = 0
           /\ \A i \in 1..Len(SqlOf(trace[1])) :
                 SqlOf(trace[1])[i] \notin
                    {" FOR VALUES FROM (", " FOR VALUES IN ("}

C12_Witness ==
    /\ call.op = "add_default_partition"
    /\ ~Raised(result)
    /\ call.name = "p1"
    /\ trace[1].kind = "execute"
    /\ SqlOf(trace[1])
         = <<"CREATE TABLE ", "\"p1\"", " PARTITION OF ", "\"parent\"",
             " DEFAULT">>

\* the descriptors that pass every check, stated without the validation code
ValidDescriptor(model) ==
    /\ model.partitioning_method \in {Scalar("range"), Scalar("list")}
    /\ model.partitioning_key.tag = "list"
    /\ model.partitioning_key.items # <<>>
    /\ \A i \in 1..Len(model.partitioning_key.items) :
          model.partitioning_key.items[i] \in {"id", "ts"}

\* C13: a create_partitioned_model that returns has really executed
\* exactly one statement, the rewritten CREATE TABLE, with the parameters
\* the base engine produced, whatever side effects are registered.
C13_OneStatementExecuted ==
    (call.op = "create_partitioned_model" /\ ValidDescriptor(call.model)
       /\ ~Raised(result))
        => /\ Indices("execute") = {Len(trace)}
           /\ trace[Len(trace)].by = "session"
           /\ Len(trace[Len(trace)].args) = 2
           /\ FinalSql[1] = "CREATE TABLE "
           /\ trace[Len(trace)].args[2] = ParamsArg(<<>>)

\* the first entry of a key that is no field of the table
FirstUnknownField(model) ==
    LET key == model.partitioning_key.items
        bad == {i \in 1..Len(key) : key[i] \notin {"id", "ts"}}
    IN  key[CHOOSE i \in bad : \A j \in bad : i <= j]

\* C14: when a key entry does not resolve to a field, the configuration
\* error names the model and the first key entry that failed to resolve,
\* not merely the key as a whole.
C14_ErrorNamesBadField ==
    (/\ call.op \in PartitionOps
     /\ call.model.partitioning_method \in {Scalar("range"), Scalar("list")}
     /\ KeyNamesUnknownField(call.model))
        => /\ result.exc = "ImproperlyConfigured"
           /\ Len(result.args) = 2
           /\ result.args[1] = Scalar(call.model.name)
           /\ result.args[2] = Scalar(FirstUnknownField(call.model))

\* the earliest check a descriptor violates, in the order method present,
\* key present, method recognised, key a sequence, every key field
\* resolves; "" when it violates none.  A method or key that is missing and
\* one that is empty are both "not set", the one error of the first two
\* checks.
EarliestViolatedCheck(model) ==
    LET m == model.partitioning_method
        k == model.partitioning_key
    IN  IF m = None THEN "not set"
        ELSE IF k = None \/ k = List(<<>>) THEN "not set"
        ELSE IF m \notin {Scalar("range"), Scalar("list")} THEN "not a member"
        ELSE IF k.tag # "list" THEN "not a list"
        ELSE IF \E i \in 1..Len(k.items) : k.items[i] \notin {"id", "ts"}
        THEN "not a valid field"
        ELSE ""

\* C15: validation is fail-fast in a fixed order: a descriptor that
\* violates several checks raises the one error of the earliest violated
\* check and nothing else happens; a descriptor that violates none raises
\* no configuration error.
C15_EarliestCheckRaises ==
    call.op \in PartitionOps
        => LET check == EarliestViolatedCheck(call.model)
           IN  IF check = ""
               THEN result.exc # "ImproperlyConfigured"
               ELSE /\ result.exc = "ImproperlyConfigured"
                    /\ result.check = check
                    /\ trace = <<>>

C15_Witness ==
    /\ call.op = "add_list_partition"
    /\ call.model.partitioning_method = Scalar("hash")
    /\ call.model.partitioning_key = Scalar("ts")
    /\ result.exc = "ImproperlyConfigured"
    /\ result.check = "not a member"

\* C16: whenever the wrapped create-table logic returns normally,
\* _extract_sql has captured exactly one (sql, params) pair, however often
\* that logic called execute, and create_partitioned_model unpacks it.
C16_OnePairCaptured ==
    (call.op = "create_partitioned_model" /\ Indices("extract_exit") # {})
        => /\ Cardinality(DuringExtract \cap Indices("intercept")) = 1
           /\ \A i \in DuringExtract \cap Indices("intercept") :
                 Len(trace[i].args) = 2
           /\ result.exc # "ValueError"

\* the columns of the PARTITION BY clause that ends a statement
PartitionByStart(sql) == CHOOSE i \in 1..Len(sql) : sql[i] = " PARTITION BY "
PartitionByColumns(sql) ==
    LET NotComma(t) == t # ", "
    IN  SelectSeq(SubSeq(sql, PartitionByStart(sql) + 3, Len(sql) - 1),
                  NotComma)

\* C17: the statement create_partitioned_model builds ends with PARTITION
\* BY, the method name in upper case and the key columns in declared order,
\* and these columns are the ones that follow the primary-key column in
\* the composite primary key, in the same order.
C17_PartitionByClause ==
    (call.op = "create_partitioned_model" /\ ~Raised(result))
        => LET sql == FinalSql
               start == PartitionByStart(sql)
               key == call.model.partitioning_key.items
           IN  /\ Count(sql, " PARTITION BY ") = 1
               /\ sql[start + 1]
                    = (IF call.model.partitioning_method = Scalar("range")
                       THEN "RANGE" ELSE "LIST")
               /\ sql[start + 2] = " ("
               /\ sql[Len(sql)] = ")"
               /\ Len(sql) = start + 2 + (2 * Len(key) - 1) + 1
               /\ PartitionByColumns(sql)
                    = [i \in 1..Len(key) |-> "\"" \o key[i] \o "\""]
               /\ PartitionByColumns(sql) = Tail(PrimaryKeyColumns(sql))

C17_Witness ==
    /\ call.op = "create_partitioned_model"
    /\ ~Raised(result)
    /\ call.model.partitioning_method = Scalar("range")
    /\ call.model.partitioning_key = List(<<"ts", "id">>)
    /\ trace[Len(trace)].kind = "execute"
    /\ SubSeq(FinalSql, Len(FinalSql) - 6, Len(FinalSql))
         = <<" PARTITION BY ", "RANGE", " (", "\"ts\"", ", ", "\"id\"", ")">>
    /\ PrimaryKeyColumns(FinalSql) = <<"\"id\"", "\"ts\"", "\"id\"">>

AddPartitionOps ==
    {"add_range_partition", "add_list_partition", "add_default_partition"}

\* C18: on a session, after any earlier calls (a failed
\* create_partitioned_model among them), every add_range_partition,
\* add_list_partition and add_default_partition on a valid descriptor
\* passes its statement to the real execute capability exactly once;
\* nothing is swallowed by a capturing substitute left behind.
C18_LaterStatementsExecuted ==
    (call.op \in AddPartitionOps /\ ValidDescriptor(call.model))
        => /\ ~Raised(result)
           /\ Len(trace) = 1
           /\ trace[1].kind = "execute"
           /\ trace[1].by = "session"
           /\ trace[1].on = call.session
           /\ Indices("intercept") = {}

\* C19: in create_model, alter_db_table, add_field and alter_field a call
\* of the base engine that raises means that no hook is invoked in that
\* operation, and the error of the base engine is what the caller gets.
C19_BaseRaiseSkipsHooks ==
    (call.op \in BaseFirstOps /\ Indices("base_raise") # {})
        => /\ Indices("hook") = {}
           /\ \A j \in Statements : trace[j].by = "base"
           /\ trace[Len(trace)].kind = "base_raise"
           /\ result.exc = "BaseError"
           /\ result.check = call.op

C19_Witness ==
    /\ call.op = "create_model"
    /\ call.base.raises
    /\ Len(side_effects) = 2
    /\ \A h \in Handlers : call.beh[h] = "sql"
    /\ Indices("base_raise") # {}
    /\ Indices("hook") = {}
    /\ result.exc = "BaseError"

====
